---- MODULE Spec2Model ----
(***************************************************************************)
(* Model of app_inversiones: the IOL quote client (iol_service.py), the    *)
(* tables of models.py (instruments, price history, holdings, ratings,     *)
(* fixed-term records) and the handlers of app.py and                      *)
(* import_historical_prices.py that write them.                            *)
(*                                                                         *)
(* Spec        the tables and every handler that writes them, on a clock   *)
(*             of days, against a provider that quotes every price         *)
(* SpecCycle   the refresh cycles against every kind of provider answer,   *)
(*             on a clock of token lifetimes                               *)
(* SpecClient  the quote client alone, on a clock of minutes               *)
(* SpecPortfolio  the instruments and the holdings of the portfolios       *)
(* SpecRatings    the ratings of the brokers                               *)
(* SpecForms      the forms, with fields that do not validate              *)
(* SpecRace       the scheduled job and a manual price edit, step by step  *)
(* SpecHistory    the series of the value of a portfolio over the days     *)
(* SpecBrokers    the fixed-term records and the totals of the brokers     *)
(* SpecCommit     the scheduled job with a commit that can fail            *)
(* SpecShared     the quote client used by two threads, step by step       *)
(***************************************************************************)
EXTENDS Integers, Sequences, FiniteSets, TLC

VARIABLES
    stocks,          \* table stocks: rows [id, symbol, current_price, last_updated]
    next_stock_id,   \* the serial of stocks.id
    price_history,   \* table price_history: <<stock_id, date>> -> the prices of its rows
    today,           \* date.today()
    now,             \* datetime.now(), in minutes
    access_token,    \* iol_service.access_token
    refresh_token,   \* iol_service.refresh_token
    token_expiry,    \* iol_service.token_expiry
    portfolios,      \* table portfolios: id -> [broker_id, created_at]
    portfolio_stocks,  \* table portfolio_stocks: rows [portfolio_id, stock_id, quantity, purchase_price]
    broker_ratings,  \* table broker_ratings: <<broker_id, user_id, category>> -> the ratings of its rows
    investments,     \* table investments: id -> [name, investment_type, amount, interest_rate, ...]
    txn,             \* the transactions in flight of the job's thread and of a request's thread
    last             \* what the last operation did and returned

vars == <<stocks, next_stock_id, price_history, today, now,
          access_token, refresh_token, token_expiry,
          portfolios, portfolio_stocks, broker_ratings, investments, txn, last>>

store_vars == <<stocks, next_stock_id, price_history>>
client_vars == <<access_token, refresh_token, token_expiry>>
desk_vars == <<portfolios, portfolio_stocks, broker_ratings, investments, txn>>

----------------------------------------------------------------------------
(* Bounds of the model and constants of the program *)

MaxNow == 15
MaxDay == 2
MaxPrice == 2
MaxStockId == 2
MaxSeries == 1
MaxAmount == 3
MaxPortfolio == 1
MaxHoldings == 2
Mantissa == 2
MaxBroker == 1
MaxUser == 1
MaxInvestment == 1
MaxResponses == 3
YearDays == 2
Resolution == 3
ReportDays == 1

MaxStars == 5

Decimals == 2

DefaultWindow == 90

TokenValidity == 14

None == -1

DEFAULT_BONDS == <<"AL29", "GD35">>

\* the ticker symbols a request can carry, stored or typed in
Symbols == {"AL29", "GD35"}
FormSymbols == {"", "al29", "GD35"}

Prices == 0..MaxPrice

----------------------------------------------------------------------------
(* Python helpers *)

\* str.upper()
Upper(s) == IF s = "al29" THEN "AL29" ELSE IF s = "gd35" THEN "GD35" ELSE s

\* truth value of a number or None: None and 0 are false
Truthy(x) == x # None /\ x # 0

RECURSIVE Pow2(_)
Pow2(n) == IF n = 0 THEN 1 ELSE 2 * Pow2(n - 1)

ErrAbsent == "absent"

\* d[k] = v on a dict kept as a sequence of <<key, value>> in insertion order
DictSet(d, k, v) ==
    IF \E i \in 1..Len(d) : d[i][1] = k
    THEN [i \in 1..Len(d) |-> IF d[i][1] = k THEN <<k, v>> ELSE d[i]]
    ELSE Append(d, <<k, v>>)

----------------------------------------------------------------------------
(* The quote provider: what it can answer to one request *)

TokenAnswers == {"ok", "ok_no_token", "http_error", "exception"}

QuoteAnswers ==
    [kind : {"ok"}, price : {None} \cup Prices]
        \cup {[kind |-> "http_error", price |-> None],
              [kind |-> "exception", price |-> None]}

\* a provider: the answers it can give to a token request and to a quote lookup
Provider == [token |-> TokenAnswers, quote |-> QuoteAnswers]

\* a provider that accepts the credentials and answers a lookup with any price
\* or with an HTTP error
StoreProvider ==
    [token |-> {"ok"},
     quote |-> [kind : {"ok"}, price : Prices]
                   \cup {[kind |-> "http_error", price |-> None]}]

\* a provider that accepts the credentials and answers a lookup with one price
\* or with an HTTP error
SeedProvider ==
    [token |-> {"ok"},
     quote |-> {[kind |-> "ok", price |-> MaxPrice],
                [kind |-> "http_error", price |-> None]}]

\* a provider that gives every kind of answer, with one price
CycleProvider ==
    [token |-> TokenAnswers,
     quote |-> {q \in QuoteAnswers : q.price \in {None, MaxPrice}}]

TokenEvent(grant, ans) == [kind |-> "token", grant |-> grant, answer |-> ans]

----------------------------------------------------------------------------
(* IOLService; c is the client's state, t the time of the call *)

Client == [access_token |-> access_token,
           refresh_token |-> refresh_token,
           token_expiry |-> token_expiry]

\* the assignments of a 200 token response at time t
TokenResponse(t, ans) ==
    [access_token |-> IF ans = "ok" THEN t ELSE None,
     refresh_token |-> IF ans = "ok" THEN t ELSE None,
     token_expiry |-> t + TokenValidity]

\* faulty variant: a failed authentication forgets the tokens the client held
authenticate_forgets(c, t, ans) ==
    IF ans \in {"ok", "ok_no_token"}
    THEN [client |-> TokenResponse(t, ans), ok |-> TRUE,
          events |-> <<TokenEvent("password", ans)>>]
    ELSE [client |-> [access_token |-> None, refresh_token |-> None, token_expiry |-> None],
          ok |-> FALSE,
          events |-> <<TokenEvent("password", ans)>>]

authenticate(c, t, ans) ==
    IF ans \in {"ok", "ok_no_token"}
    THEN [client |-> TokenResponse(t, ans), ok |-> TRUE,
          events |-> <<TokenEvent("password", ans)>>]
    ELSE [client |-> c, ok |-> FALSE,
          events |-> <<TokenEvent("password", ans)>>]

\* faulty variant: a refused refresh is reported as a failure, without the password grant
refresh_access_token_no_fallback(c, t, ans, ans2) ==
    IF ans \in {"ok", "ok_no_token"}
    THEN [client |-> TokenResponse(t, ans), ok |-> TRUE,
          events |-> <<TokenEvent("refresh_token", ans)>>]
    ELSE [client |-> c, ok |-> FALSE,
          events |-> <<TokenEvent("refresh_token", ans)>>]

refresh_access_token(c, t, ans, ans2) ==
    IF ans \in {"ok", "ok_no_token"}
    THEN [client |-> TokenResponse(t, ans), ok |-> TRUE,
          events |-> <<TokenEvent("refresh_token", ans)>>]
    ELSE LET a == authenticate(c, t, ans2)
         IN  [client |-> a.client, ok |-> a.ok,
              events |-> <<TokenEvent("refresh_token", ans)>> \o a.events]

\* every way the call can go, one per pattern of provider answers
ensure_authenticated(c, t, P) ==
    IF c.access_token = None \/ c.token_expiry = None
    THEN {authenticate(c, t, a) : a \in P.token}
    ELSE IF t >= c.token_expiry
    THEN {refresh_access_token(c, t, a, a2) : a \in P.token, a2 \in P.token}
    ELSE {[client |-> c, ok |-> TRUE, events |-> <<>>]}

LookupEvent(c, t, symbol) ==
    [kind |-> "lookup", symbol |-> symbol, at |-> t,
     bearer |-> c.access_token, expiry |-> c.token_expiry]

QuoteResult(symbol, q) ==
    IF q.kind = "ok"
    THEN [symbol |-> symbol, price |-> q.price, error |-> ErrAbsent]
    ELSE IF q.kind = "http_error"
    THEN [symbol |-> symbol, price |-> None, error |-> "HTTP 500"]
    ELSE [symbol |-> symbol, price |-> None, error |-> "timeout"]

get_bond_price(c, t, symbol, P) ==
    UNION {
        IF ~e.ok
        THEN {[client |-> e.client,
               price_data |-> [symbol |-> symbol, price |-> None, error |-> "Auth failed"],
               events |-> e.events]}
        ELSE {[client |-> e.client,
               price_data |-> QuoteResult(symbol, q),
               events |-> Append(e.events, LookupEvent(e.client, t, symbol))]
              : q \in P.quote}
        : e \in ensure_authenticated(c, t, P)}

RECURSIVE get_multiple_prices(_, _, _, _)
get_multiple_prices(c, t, symbols, P) ==
    IF symbols = <<>>
    THEN {[client |-> c, results |-> <<>>, events |-> <<>>]}
    ELSE LET n == Len(symbols)
             symbol == symbols[n]
         IN  UNION {
                 {[client |-> o.client,
                   results |-> DictSet(p.results, symbol, o.price_data),
                   events |-> p.events \o o.events]
                  : o \in get_bond_price(p.client, t, Upper(symbol), P)}
                 : p \in get_multiple_prices(c, t, SubSeq(symbols, 1, n - 1), P)}

SetClient(c) ==
    /\ access_token' = c.access_token
    /\ refresh_token' = c.refresh_token
    /\ token_expiry' = c.token_expiry

----------------------------------------------------------------------------
(* Transactions in flight *)

Threads == {"job", "request"}

Idle == [pc |-> "idle"]

NoTransactions == [t \in Threads |-> Idle]

----------------------------------------------------------------------------
(* Initial state: empty tables, a client that never authenticated *)

Init ==
    /\ stocks = {}
    /\ next_stock_id = 1
    /\ price_history = [k \in {} |-> <<>>]
    /\ today = 1
    /\ now = 0
    /\ access_token = None
    /\ refresh_token = None
    /\ token_expiry = None
    /\ portfolios = [k \in {} |-> None]
    /\ portfolio_stocks = <<>>
    /\ broker_ratings = [k \in {} |-> <<>>]
    /\ investments = [k \in {} |-> None]
    /\ txn = NoTransactions
    /\ last = [op |-> "init"]

----------------------------------------------------------------------------
(* The clock *)

Tick(d) ==
    /\ now + d <= MaxNow
    /\ now' = now + d
    /\ last' = [op |-> "tick"]
    /\ UNCHANGED <<store_vars, client_vars, desk_vars, today>>

----------------------------------------------------------------------------
(* Handlers that only use the quote client *)

api_iol_test_connection(P) ==
    \E a \in P.token :
        LET r == authenticate(Client, now, a)
        IN  /\ SetClient(r.client)
            /\ last' = [op |-> "api_iol_test_connection",
                        before |-> Client,
                        ok |-> r.ok,
                        events |-> r.events,
                        status |-> IF r.ok THEN 200 ELSE 401]
            /\ UNCHANGED <<store_vars, desk_vars, today, now>>

api_iol_get_price(symbol, P) ==
    \E o \in get_bond_price(Client, now, Upper(symbol), P) :
        /\ SetClient(o.client)
        /\ last' = [op |-> "api_iol_get_price",
                    before |-> Client,
                    price_data |-> o.price_data,
                    events |-> o.events,
                    status |-> IF Truthy(o.price_data.price) THEN 200 ELSE 404]
        /\ UNCHANGED <<store_vars, desk_vars, today, now>>

----------------------------------------------------------------------------
(* The tables *)

NewStock(id, symbol) ==
    [id |-> id, symbol |-> symbol, current_price |-> 0, last_updated |-> None]

Min(S) == CHOOSE x \in S : \A y \in S : x <= y

Max(S) == CHOOSE x \in S : \A y \in S : x >= y

\* faulty variant: the look for a row of the symbol finds none
StockBySymbol_never_finds(st, symbol) == None

\* Stock.query.filter_by(symbol=symbol).first(), None when there is no row
StockBySymbol(st, symbol) ==
    LET ids == {s.id : s \in {r \in st : r.symbol = symbol}}
    IN  IF ids = {} THEN None ELSE Min(ids)

StockRow(st, id) == CHOOSE r \in st : r.id = id

RECURSIVE SortedIds(_)
SortedIds(ids) ==
    IF ids = {} THEN <<>> ELSE <<Min(ids)>> \o SortedIds(ids \ {Min(ids)})

\* [s.symbol for s in Stock.query.all()], rows in id order
AllSymbols(st) ==
    LET ids == SortedIds({r.id : r \in st})
    IN  [i \in 1..Len(ids) |-> StockRow(st, ids[i]).symbol]

\* the rows of price_history with this stock_id and date, as their prices in
\* insertion order; price_history maps each <<stock_id, date>> that has rows to them
Rows(h, stock_id, d) ==
    IF <<stock_id, d>> \in DOMAIN h THEN h[<<stock_id, d>>] ELSE <<>>

\* db.session.add(PriceHistory(stock_id=.., price=.., date=..))
InsertHistory(h, stock_id, price, d) ==
    [k \in DOMAIN h \cup {<<stock_id, d>>} |->
        IF k = <<stock_id, d>> THEN Append(Rows(h, stock_id, d), price) ELSE h[k]]

\* faulty variant: the insert without the look for an existing sample
upsert_history_always_insert(h, stock_id, price, d) ==
    InsertHistory(h, stock_id, price, d)

\* faulty variant: the sample of today is written, the other samples of the stock too
upsert_history_all_dates(h, stock_id, price, d) ==
    LET h2 == IF Rows(h, stock_id, d) # <<>> THEN h ELSE InsertHistory(h, stock_id, price, d)
    IN  [k \in DOMAIN h2 |->
            IF k[1] = stock_id THEN [i \in 1..Len(h2[k]) |-> price] ELSE h2[k]]

\* faulty variant: the existing sample is found and left as it is
upsert_history_keep_first(h, stock_id, price, d) ==
    IF Rows(h, stock_id, d) # <<>> THEN h ELSE InsertHistory(h, stock_id, price, d)

\* existing_history = PriceHistory.query.filter_by(stock_id, date).first(), then
\* the overwrite of its price or the insert of a new row
upsert_history(h, stock_id, price, d) ==
    IF Rows(h, stock_id, d) # <<>>
    THEN [h EXCEPT ![<<stock_id, d>>] = [@ EXCEPT ![1] = price]]
    ELSE InsertHistory(h, stock_id, price, d)

\* faulty variant: the holdings of the stock are left in the table
DeleteHoldings_keeps(ps, stock_id) == ps

\* PortfolioStock.query.filter_by(stock_id=stock_id).delete()
DeleteHoldings(ps, stock_id) ==
    SelectSeq(ps, LAMBDA h : h.stock_id # stock_id)

\* PriceHistory.query.filter_by(stock_id=stock_id).delete()
DeleteHistory(h, stock_id) ==
    [k \in {x \in DOMAIN h : x[1] # stock_id} |-> h[k]]

\* the samples of day d that a write to the stocks ids replaces: <<stock_id, old price>>
Overwritten(h, ids, d) ==
    {<<id, Rows(h, id, d)[1]>> : id \in {i \in ids : Rows(h, i, d) # <<>>}}

\* the stocks a loop over prices.items() writes
WrittenIds(st, results) ==
    {StockBySymbol(st, results[i][1]) :
        i \in {j \in 1..Len(results) : Truthy(results[j][2].price)}} \ {None}

SetPrice(st, id, price, t) ==
    {IF r.id = id THEN [r EXCEPT !.current_price = price, !.last_updated = t] ELSE r
     : r \in st}

\* float() of a number the provider or the form sent
Float(x) == x

\* the loop over prices.items(): db is [stocks, history, updated, errors]
RECURSIVE apply_prices(_, _, _, _, _)
apply_prices(db, results, t, d, collect) ==
    IF results = <<>> THEN db
    ELSE LET symbol == results[1][1]
             price_data == results[1][2]
             id == StockBySymbol(db.stocks, symbol)
             step ==
                 IF id # None /\ Truthy(price_data.price)
                 THEN [stocks |-> SetPrice(db.stocks, id, Float(price_data.price), t),
                       history |-> upsert_history(db.history, id, Float(price_data.price), d),
                       updated |-> db.updated + 1,
                       errors |-> db.errors]
                 ELSE IF collect /\ price_data.error # ErrAbsent
                 THEN [db EXCEPT !.errors = Append(db.errors, <<symbol, price_data.error>>)]
                 ELSE db
         IN  apply_prices(step, Tail(results), t, d, collect)

\* for symbol in DEFAULT_BONDS: db.session.add(Stock(symbol=symbol, ...))
SeedDefaults(first_id) ==
    {NewStock(first_id + i - 1, DEFAULT_BONDS[i]) : i \in 1..Len(DEFAULT_BONDS)}

CanSeed == next_stock_id + Len(DEFAULT_BONDS) - 1 <= MaxStockId

----------------------------------------------------------------------------
(* The calendar *)

NewDay ==
    /\ today < MaxDay
    /\ today' = today + 1
    /\ last' = [op |-> "new_day"]
    /\ UNCHANGED <<store_vars, client_vars, desk_vars, now>>

----------------------------------------------------------------------------
(* Refresh cycles *)

\* the scheduled job
update_prices_from_iol(P) ==
    /\ stocks = {} => CanSeed
    /\ LET seeded == IF stocks = {} THEN SeedDefaults(next_stock_id) ELSE stocks
           symbols == AllSymbols(seeded)
       IN  \E o \in get_multiple_prices(Client, now, symbols, P) :
               LET db == apply_prices([stocks |-> seeded, history |-> price_history,
                                       updated |-> 0, errors |-> <<>>],
                                      o.results, now, today, FALSE)
               IN  /\ stocks' = db.stocks
                   /\ price_history' = db.history
                   /\ next_stock_id' = IF stocks = {} THEN next_stock_id + Len(DEFAULT_BONDS)
                                       ELSE next_stock_id
                   /\ SetClient(o.client)
                   /\ last' = [op |-> "update_prices_from_iol",
                               symbols |-> symbols,
                               overwrote |-> Overwritten(price_history,
                                                         WrittenIds(seeded, o.results), today),
                               results |-> o.results,
                               events |-> o.events,
                               updated |-> db.updated,
                               reported |-> <<>>]
    /\ UNCHANGED <<desk_vars, today, now>>

\* errors[:3]
FirstThree(errors) == SubSeq(errors, 1, IF Len(errors) < 3 THEN Len(errors) ELSE 3)

\* the bulk manual refresh
stocks_update_from_iol(P) ==
    /\ stocks = {} => CanSeed
    /\ LET seeded == IF stocks = {} THEN SeedDefaults(next_stock_id) ELSE stocks
           symbols == AllSymbols(seeded)
       IN  \E o \in get_multiple_prices(Client, now, symbols, P) :
               LET db == apply_prices([stocks |-> seeded, history |-> price_history,
                                       updated |-> 0, errors |-> <<>>],
                                      o.results, now, today, TRUE)
               IN  /\ stocks' = db.stocks
                   /\ price_history' = db.history
                   /\ next_stock_id' = IF stocks = {} THEN next_stock_id + Len(DEFAULT_BONDS)
                                       ELSE next_stock_id
                   /\ SetClient(o.client)
                   /\ last' = [op |-> "stocks_update_from_iol",
                               symbols |-> symbols,
                               overwrote |-> Overwritten(price_history,
                                                         WrittenIds(seeded, o.results), today),
                               results |-> o.results,
                               events |-> o.events,
                               updated |-> db.updated,
                               reported |-> FirstThree(db.errors)]
    /\ UNCHANGED <<desk_vars, today, now>>

----------------------------------------------------------------------------
(* Handlers of single instruments *)

stocks_add_custom(form_symbol, P) ==
    LET symbol == Upper(form_symbol)
    IN  IF symbol = ""
        THEN /\ last' = [op |-> "stocks_add_custom", flash |-> "El simbolo es requerido"]
             /\ UNCHANGED <<store_vars, client_vars, desk_vars, today, now>>
        ELSE IF StockBySymbol(stocks, symbol) # None
        THEN /\ last' = [op |-> "stocks_add_custom", flash |-> "ya existe"]
             /\ UNCHANGED <<store_vars, client_vars, desk_vars, today, now>>
        ELSE /\ next_stock_id <= MaxStockId
             /\ \E o \in get_bond_price(Client, now, symbol, P) :
                    LET id == next_stock_id
                        created == stocks \cup {NewStock(id, symbol)}
                        price == o.price_data.price
                    IN  /\ next_stock_id' = id + 1
                        /\ SetClient(o.client)
                        /\ IF Truthy(price)
                           THEN /\ stocks' = SetPrice(created, id, Float(price), now)
                                /\ price_history' =
                                       InsertHistory(price_history, id, Float(price), today)
                           ELSE /\ stocks' = created
                                /\ UNCHANGED price_history
                        /\ last' = [op |-> "stocks_add_custom",
                                    stock_id |-> id,
                                    price_data |-> o.price_data]
             /\ UNCHANGED <<desk_vars, today, now>>

\* form_price is the number typed in, None when float() cannot parse it
stock_update_price(stock_id, form_price) ==
    /\ \E r \in stocks : r.id = stock_id
    /\ IF form_price = None
       THEN /\ last' = [op |-> "stock_update_price", stock_id |-> stock_id, raised |-> TRUE]
            /\ UNCHANGED <<store_vars>>
       ELSE /\ stocks' = SetPrice(stocks, stock_id, Float(form_price), now)
            /\ price_history' = upsert_history(price_history, stock_id, Float(form_price), today)
            /\ last' = [op |-> "stock_update_price", stock_id |-> stock_id,
                        raised |-> FALSE, price |-> Float(form_price),
                        overwrote |-> Overwritten(price_history, {stock_id}, today)]
            /\ UNCHANGED next_stock_id
    /\ UNCHANGED <<client_vars, desk_vars, today, now>>

stock_delete(stock_id) ==
    /\ \E r \in stocks : r.id = stock_id
    /\ price_history' = DeleteHistory(price_history, stock_id)
    /\ portfolio_stocks' = DeleteHoldings(portfolio_stocks, stock_id)
    /\ stocks' = {r \in stocks : r.id # stock_id}
    /\ last' = [op |-> "stock_delete", stock_id |-> stock_id,
                samples |-> Cardinality({k \in DOMAIN price_history : k[1] = stock_id}),
                holdings |-> Len(portfolio_stocks) - Len(DeleteHoldings(portfolio_stocks, stock_id))]
    /\ UNCHANGED <<next_stock_id, client_vars, portfolios, broker_ratings, investments, txn,
                   today, now>>

----------------------------------------------------------------------------
(* import_historical_prices.py: one pass of the loop over the stocks, which *)
(* commits per stock. prices is the series the provider returned for it.   *)

SeriesRecords == [fecha : 1..MaxDay, precio : {0, MaxPrice}]

Series == UNION {[1..n -> SeriesRecords] : n \in 0..MaxSeries}

RECURSIVE import_records(_, _, _)
import_records(h, stock_id, prices) ==
    IF prices = <<>> THEN h
    ELSE LET record == prices[1]
             h2 == IF ~Truthy(record.precio) THEN h
                   ELSE IF Rows(h, stock_id, record.fecha) # <<>>
                   THEN [h EXCEPT ![<<stock_id, record.fecha>>] =
                                      [i \in 1..Len(@) |-> record.precio]]
                   ELSE InsertHistory(h, stock_id, record.precio, record.fecha)
         IN  import_records(h2, stock_id, Tail(prices))

import_historical_data(stock_id, prices) ==
    /\ \E r \in stocks : r.id = stock_id
    /\ \A i \in 1..Len(prices) : prices[i].fecha <= today
    /\ price_history' = import_records(price_history, stock_id, prices)
    /\ last' = [op |-> "import_historical_data", stock_id |-> stock_id]
    /\ UNCHANGED <<stocks, next_stock_id, client_vars, desk_vars, today, now>>

----------------------------------------------------------------------------
(* Form fields *)

\* a form field that the request does not carry
Missing == "<missing>"

\* request.form.get(name, default)
FormGet(value, default) == IF value = Missing THEN default ELSE value

\* the numbers a form can carry, None when float() or int() cannot parse the field
Amounts == 0..MaxAmount

----------------------------------------------------------------------------
(* Float columns and their arithmetic: binary floating point with a        *)
(* significand of Mantissa bits, rounded to nearest, ties to even          *)

RECURSIVE RoundTo(_, _)
RoundTo(x, step) ==
    IF x >= Pow2(Mantissa) * step
    THEN RoundTo(x, 2 * step)
    ELSE LET q == x \div step
             r == x % step
         IN  IF 2 * r < step THEN q * step
             ELSE IF 2 * r > step THEN (q + 1) * step
             ELSE IF q % 2 = 0 THEN q * step ELSE (q + 1) * step

Round(x) == IF x < 0 THEN 0 - RoundTo(0 - x, 1) ELSE RoundTo(x, 1)

fmul(a, b) == Round(a * b)
fadd(a, b) == Round(a + b)
fsub(a, b) == Round(a - b)

\* a / b: ZeroDivisionError, or the quotient kept as the fraction <<a, b>>
fdiv(a, b) ==
    IF b = 0 THEN [raised |-> TRUE, value |-> <<0, 0>>]
    ELSE [raised |-> FALSE, value |-> <<a, b>>]

----------------------------------------------------------------------------
(* Holdings: PortfolioStock and Portfolio *)

Brokers == 1..MaxBroker
Users == 1..MaxUser
Portfolios == 1..MaxPortfolio

\* the portfolio is created now, for a broker that exists
portfolio_new(broker_id) ==
    LET id == Cardinality(DOMAIN portfolios) + 1
    IN  /\ id <= MaxPortfolio
        /\ broker_id \in Brokers
        /\ portfolios' = [k \in DOMAIN portfolios \cup {id} |->
                             IF k = id THEN [broker_id |-> broker_id, created_at |-> today]
                             ELSE portfolios[k]]
        /\ last' = [op |-> "portfolio_new", portfolio_id |-> id]
        /\ UNCHANGED <<store_vars, client_vars, portfolio_stocks, broker_ratings,
                       investments, txn, today, now>>

Holding(portfolio_id, stock_id, quantity, purchase_price) ==
    [portfolio_id |-> portfolio_id, stock_id |-> stock_id,
     quantity |-> quantity, purchase_price |-> purchase_price]

\* PortfolioStock.current_value; h.stock is the row of h.stock_id
current_value(h, st) ==
    LET price == StockRow(st, h.stock_id).current_price
    IN  IF Truthy(price) THEN fmul(h.quantity, price) ELSE 0

\* faulty variant: the purchase price of one unit is taken for the cost
gain_loss_per_unit(h, st) ==
    fsub(current_value(h, st), h.purchase_price)

\* PortfolioStock.gain_loss
gain_loss(h, st) ==
    fsub(current_value(h, st), fmul(h.quantity, h.purchase_price))

\* faulty variant: the division without the test for a cost of zero
gain_loss_percentage_unguarded(h, st) ==
    LET cost == fmul(h.quantity, h.purchase_price)
        d == fdiv(fsub(current_value(h, st), cost), cost)
    IN  [raised |-> d.raised, value |-> <<d.value[1] * 100, d.value[2]>>]

\* PortfolioStock.gain_loss_percentage
gain_loss_percentage(h, st) ==
    LET cost == fmul(h.quantity, h.purchase_price)
        d == fdiv(fsub(current_value(h, st), cost), cost)
    IN  IF cost = 0 THEN [raised |-> FALSE, value |-> <<0, 1>>]
        ELSE [raised |-> d.raised, value |-> <<d.value[1] * 100, d.value[2]>>]

\* self.stocks.all() of a portfolio, in the order of the rows
HoldingsOf(ps, portfolio_id) ==
    SelectSeq(ps, LAMBDA h : h.portfolio_id = portfolio_id)

\* sum(values): 0 + values[1] + values[2] + ...
RECURSIVE Sum(_)
Sum(values) ==
    IF values = <<>> THEN 0
    ELSE fadd(Sum(SubSeq(values, 1, Len(values) - 1)), values[Len(values)])

\* Portfolio.total_value
total_value(ps, st, portfolio_id) ==
    LET hs == HoldingsOf(ps, portfolio_id)
    IN  Sum([i \in 1..Len(hs) |-> current_value(hs[i], st)])

\* quantity and purchase_price are None when float() cannot parse the field;
\* stock_id is None when the form says 'new' or nothing, else the id it names
portfolio_add_stock(portfolio_id, quantity, purchase_price, stock_id, form_symbol) ==
    /\ portfolio_id \in DOMAIN portfolios
    /\ IF quantity = None \/ purchase_price = None
       THEN /\ last' = [op |-> "portfolio_add_stock", outcome |-> "ValueError"]
            /\ UNCHANGED <<store_vars, portfolio_stocks>>
       ELSE IF stock_id # None
       THEN IF \E r \in stocks : r.id = stock_id
            THEN /\ Len(portfolio_stocks) < MaxHoldings
                 /\ portfolio_stocks' =
                        Append(portfolio_stocks,
                               Holding(portfolio_id, stock_id, quantity, purchase_price))
                 /\ last' = [op |-> "portfolio_add_stock", outcome |-> "added",
                             created |-> FALSE]
                 /\ UNCHANGED store_vars
            ELSE /\ last' = [op |-> "portfolio_add_stock", outcome |-> "404"]
                 /\ UNCHANGED <<store_vars, portfolio_stocks>>
       ELSE LET symbol == Upper(FormGet(form_symbol, ""))
                existing == StockBySymbol(stocks, symbol)
            IN  IF symbol = ""
                THEN /\ last' = [op |-> "portfolio_add_stock", outcome |-> "flash"]
                     /\ UNCHANGED <<store_vars, portfolio_stocks>>
                ELSE /\ Len(portfolio_stocks) < MaxHoldings
                     /\ existing = None => next_stock_id <= MaxStockId
                     /\ LET id == IF existing = None THEN next_stock_id ELSE existing
                        IN  /\ stocks' = IF existing = None
                                         THEN stocks \cup {NewStock(id, symbol)}
                                         ELSE stocks
                            /\ next_stock_id' = IF existing = None THEN id + 1
                                                ELSE next_stock_id
                            /\ portfolio_stocks' =
                                   Append(portfolio_stocks,
                                          Holding(portfolio_id, id, quantity, purchase_price))
                            /\ last' = [op |-> "portfolio_add_stock", outcome |-> "added",
                                        created |-> existing = None]
                     /\ UNCHANGED price_history
    /\ UNCHANGED <<client_vars, portfolios, broker_ratings, investments, txn, today, now>>

\* for symbol in DEFAULT_BONDS: the bonds that no row has yet, in their order
RECURSIVE MissingDefaults(_, _)
MissingDefaults(st, symbols) ==
    IF symbols = <<>> THEN <<>>
    ELSE IF StockBySymbol(st, symbols[1]) = None
    THEN <<symbols[1]>> \o MissingDefaults(st, Tail(symbols))
    ELSE MissingDefaults(st, Tail(symbols))

stocks_init_default_bonds ==
    LET missing == MissingDefaults(stocks, DEFAULT_BONDS)
    IN  /\ next_stock_id + Len(missing) - 1 <= MaxStockId
        /\ stocks' = stocks \cup
               {NewStock(next_stock_id + i - 1, missing[i]) : i \in 1..Len(missing)}
        /\ next_stock_id' = next_stock_id + Len(missing)
        /\ last' = [op |-> "stocks_init_default_bonds", created |-> Len(missing)]
        /\ UNCHANGED <<price_history, client_vars, desk_vars, today, now>>

----------------------------------------------------------------------------
(* The value of a portfolio over time. The days of the model's calendar are  *)
(* numbered; its year has YearDays days. Prices and amounts of money are     *)
(* counted in units of 10^-Resolution, quantities in whole units.            *)

RECURSIVE Pow10(_)
Pow10(n) == IF n = 0 THEN 1 ELSE 10 * Pow10(n - 1)

\* round(x, ndigits): the nearest multiple of 10^-ndigits, a tie to the even one
round(x, ndigits) ==
    LET step == Pow10(Resolution - ndigits)
        q == x \div step
        r == x % step
    IN  IF 2 * r < step THEN q * step
        ELSE IF 2 * r > step THEN (q + 1) * step
        ELSE IF q % 2 = 0 THEN q * step ELSE (q + 1) * step

\* check_date.strftime('%d/%m'): the day and the month of the date, without its year
strftime(d) == d % YearDays

\* {ps.stock_id: ps.quantity for ps in portfolio_stocks}: a later holding of a
\* stock replaces the quantity of an earlier one
stock_quantities(hs) ==
    [id \in {hs[i].stock_id : i \in 1..Len(hs)} |->
        hs[Max({i \in 1..Len(hs) : hs[i].stock_id = id})].quantity]

\* the samples of the stocks between the two dates, grouped:
\* prices_by_date[ph.date][ph.stock_id] = ph.price
prices_by_date(h, stock_ids, start_date, end_date) ==
    LET keys == {k \in DOMAIN h : /\ k[1] \in stock_ids
                                  /\ k[2] >= start_date
                                  /\ k[2] <= end_date}
    IN  [d \in {k[2] : k \in keys} |->
            [id \in {k[1] : k \in {x \in keys : x[2] = d}} |->
                h[<<id, d>>][Len(h[<<id, d>>])]]]

\* sum(stock_quantities.get(stock_id, 0) * price for stock_id, price in day_prices.items())
day_total(quantities, day_prices) ==
    LET ids == SortedIds(DOMAIN day_prices)
    IN  Sum([i \in 1..Len(ids) |->
                fmul(IF ids[i] \in DOMAIN quantities THEN quantities[ids[i]] ELSE 0,
                     day_prices[ids[i]])])

\* the loop over sorted(prices_by_date.keys()): the dates with a positive total,
\* as the check_date of each point, its label and its rounded total
value_history(hs, h, start_date, end_date) ==
    LET quantities == stock_quantities(hs)
        by_date == prices_by_date(h, DOMAIN quantities, start_date, end_date)
        days == SelectSeq(SortedIds(DOMAIN by_date),
                          LAMBDA d : day_total(quantities, by_date[d]) > 0)
    IN  [days |-> days,
         dates |-> [i \in 1..Len(days) |-> strftime(days[i])],
         values |-> [i \in 1..Len(days) |->
                        round(day_total(quantities, by_date[days[i]]), Decimals)]]

\* faulty variant: the first total of the series is taken for its maximum
SeqMax_first(values) == values[1]

\* max(values), min(values)
SeqMax(values) == Max({values[i] : i \in 1..Len(values)})
SeqMin(values) == Min({values[i] : i \in 1..Len(values)})

\* the endpoint of the chart of a portfolio
api_portfolio_value_history(portfolio_id) ==
    /\ portfolio_id \in DOMAIN portfolios
    /\ LET hs == HoldingsOf(portfolio_stocks, portfolio_id)
           current == total_value(portfolio_stocks, stocks, portfolio_id)
           created_at == portfolios[portfolio_id].created_at
           start_date == IF created_at # None THEN created_at ELSE today - DefaultWindow
           series == value_history(hs, price_history, start_date, today)
           synthetic == series.values = <<>> /\ current > 0
           dates == IF synthetic THEN <<strftime(today)>> ELSE series.dates
           values == IF synthetic THEN <<round(current, Decimals)>> ELSE series.values
           max_value == IF values # <<>> THEN SeqMax(values) ELSE current
           min_value == IF values # <<>> THEN SeqMin(values) ELSE current
       IN  last' = [op |-> "api_portfolio_value_history",
                    portfolio_id |-> portfolio_id,
                    start_date |-> start_date,
                    synthetic |-> synthetic,
                    days |-> IF synthetic THEN <<today>> ELSE series.days,
                    dates |-> dates,
                    values |-> values,
                    current_value |-> round(current, Decimals),
                    max_value |-> round(max_value, Decimals),
                    min_value |-> round(min_value, Decimals)]
    /\ UNCHANGED <<store_vars, client_vars, desk_vars, today, now>>

\* the series of the executive report, over the last days
get_portfolio_value_history(portfolio_id, days) ==
    /\ LET hs == HoldingsOf(portfolio_stocks, portfolio_id)
           start_date == today - days
           series == IF portfolio_id \notin DOMAIN portfolios \/ hs = <<>>
                     THEN [days |-> <<>>, dates |-> <<>>, values |-> <<>>]
                     ELSE value_history(hs, price_history, start_date, today)
       IN  last' = [op |-> "get_portfolio_value_history",
                    portfolio_id |-> portfolio_id,
                    start_date |-> start_date,
                    synthetic |-> FALSE,
                    days |-> series.days,
                    dates |-> series.dates,
                    values |-> series.values]
    /\ UNCHANGED <<store_vars, client_vars, desk_vars, today, now>>

----------------------------------------------------------------------------
(* Ratings: BrokerRating *)

FormCategories == {Missing, "general", "comisiones"}

\* the rows of broker_ratings of a (broker_id, user_id, category), as their ratings
Ratings(br, key) == IF key \in DOMAIN br THEN br[key] ELSE <<>>

\* faulty variant: a new row for every rating
upsert_rating_always_insert(br, key, rating_value) ==
    [k \in DOMAIN br \cup {key} |->
        IF k = key THEN Append(Ratings(br, key), rating_value) ELSE br[k]]

\* rating = BrokerRating.query.filter_by(...).first(), then the overwrite of
\* its rating or the insert of a new row
upsert_rating(br, key, rating_value) ==
    IF Ratings(br, key) # <<>>
    THEN [br EXCEPT ![key] = [@ EXCEPT ![1] = rating_value]]
    ELSE [k \in DOMAIN br \cup {key} |-> IF k = key THEN <<rating_value>> ELSE br[k]]

\* form_rating is None when int() cannot take the field (missing or no integer)
broker_rate(broker_id, user_id, form_category, form_rating) ==
    /\ broker_id \in Brokers
    /\ LET category == FormGet(form_category, "general")
           key == <<broker_id, user_id, category>>
       IN  IF form_rating = None
           THEN /\ last' = [op |-> "broker_rate", outcome |-> "raised"]
                /\ UNCHANGED broker_ratings
           ELSE /\ broker_ratings' = upsert_rating(broker_ratings, key, form_rating)
                /\ last' = [op |-> "broker_rate", outcome |-> "saved", key |-> key,
                            rating |-> form_rating,
                            replaced |-> Ratings(broker_ratings, key)]
    /\ UNCHANGED <<store_vars, client_vars, portfolios, portfolio_stocks, investments, txn, today, now>>

----------------------------------------------------------------------------
(* Fixed-term records: Investment *)

Names == {"plazo fijo", "bono"}

\* faulty variant: the fields assigned before the exception reach the table
rollback_keeps_session(committed, session) == session

\* a request that ends by an exception before db.session.commit(): the session
\* is removed with the changes it holds
rollback(committed, session) == committed

InvestmentTypes == {"plazo_fijo", "bono"}

Statuses == {"active", "completed", "cancelled"}

\* the fields of the form of a fixed-term record: amount is None when float()
\* cannot parse it, interest_rate, start_date, end_date and broker_id are None
\* when the field is empty
InvestmentForm(name, investment_type, amount, interest_rate, start_date, end_date, status, broker_id) ==
    [name |-> name, investment_type |-> investment_type, amount |-> amount,
     interest_rate |-> interest_rate, start_date |-> start_date,
     end_date |-> end_date, status |-> status, broker_id |-> broker_id]

\* x or 0
OrZero(x) == IF Truthy(x) THEN x ELSE 0

\* the status column's default is 'active'; the form's status is not read
investment_new(form) ==
    /\ IF form.amount = None
       THEN /\ last' = [op |-> "investment_new", outcome |-> "ValueError"]
            /\ UNCHANGED investments
       ELSE LET id == Cardinality(DOMAIN investments) + 1
                row == [name |-> form.name,
                        investment_type |-> form.investment_type,
                        amount |-> Float(form.amount),
                        interest_rate |-> Float(OrZero(form.interest_rate)),
                        start_date |-> form.start_date,
                        end_date |-> form.end_date,
                        status |-> "active",
                        broker_id |-> form.broker_id]
            IN  /\ id <= MaxInvestment
                /\ investments' = [k \in DOMAIN investments \cup {id} |->
                                      IF k = id THEN row ELSE investments[k]]
                /\ last' = [op |-> "investment_new", outcome |-> "created"]
    /\ UNCHANGED <<store_vars, client_vars, portfolios, portfolio_stocks, broker_ratings, txn, today, now>>

\* the dates and the broker are assigned only when the form carries them
investment_edit(investment_id, form) ==
    /\ investment_id \in DOMAIN investments
    /\ LET session == [investments EXCEPT ![investment_id].name = form.name,
                                          ![investment_id].investment_type =
                                              form.investment_type]
           renamed == form.name # investments[investment_id].name
       IN  IF form.amount = None
           THEN /\ investments' = rollback(investments, session)
                /\ last' = [op |-> "investment_edit", outcome |-> "ValueError",
                            renamed |-> renamed]
           ELSE /\ investments' =
                       [session EXCEPT
                           ![investment_id].amount = Float(form.amount),
                           ![investment_id].interest_rate =
                               Float(OrZero(form.interest_rate)),
                           ![investment_id].status = form.status,
                           ![investment_id].start_date =
                               IF form.start_date # None THEN form.start_date ELSE @,
                           ![investment_id].end_date =
                               IF form.end_date # None THEN form.end_date ELSE @,
                           ![investment_id].broker_id =
                               IF form.broker_id # None THEN form.broker_id ELSE @]
                /\ last' = [op |-> "investment_edit", outcome |-> "saved",
                            renamed |-> renamed]
    /\ UNCHANGED <<store_vars, client_vars, portfolios, portfolio_stocks, broker_ratings, txn, today, now>>

RECURSIVE Gcd(_, _)
Gcd(a, b) == IF b = 0 THEN a ELSE Gcd(b, a % b)

\* the quotient n / d as the fraction <<numerator, denominator>> in lowest terms
Fraction(n, d) ==
    LET g == Gcd(IF n < 0 THEN 0 - n ELSE n, d)
    IN  <<n \div g, d \div g>>

\* faulty variant: the return of a deposit is computed for every type
calculated_return_any_type(inv) ==
    IF Truthy(inv.interest_rate) /\ inv.start_date # None /\ inv.end_date # None
    THEN Fraction(inv.amount * inv.interest_rate * (inv.end_date - inv.start_date),
                  100 * 365)
    ELSE Fraction(0, 1)

\* Investment.calculated_return: amount * (interest_rate / 100) * (days / 365)
calculated_return(inv) ==
    IF /\ inv.investment_type = "plazo_fijo"
       /\ Truthy(inv.interest_rate)
       /\ inv.start_date # None
       /\ inv.end_date # None
    THEN Fraction(inv.amount * inv.interest_rate * (inv.end_date - inv.start_date),
                  100 * 365)
    ELSE Fraction(0, 1)

\* Investment.total_at_maturity: amount + calculated_return
total_at_maturity(inv) ==
    LET r == calculated_return(inv)
    IN  Fraction(inv.amount * r[2] + r[1], r[2])

\* invested, current and gain_loss of a portfolio, added holding by holding
RECURSIVE portfolio_data(_, _)
portfolio_data(hs, st) ==
    IF hs = <<>> THEN [invested |-> 0, current |-> 0, gain_loss |-> 0]
    ELSE LET ps == hs[Len(hs)]
             before == portfolio_data(SubSeq(hs, 1, Len(hs) - 1), st)
         IN  [invested |-> fadd(before.invested, fmul(ps.quantity, ps.purchase_price)),
              current |-> fadd(before.current, current_value(ps, st)),
              gain_loss |-> fadd(before.gain_loss, gain_loss(ps, st))]

\* the totals of a broker after its portfolios, in the order of their ids
RECURSIVE portfolio_totals(_, _, _, _)
portfolio_totals(broker_id, ids, ps, st) ==
    IF ids = <<>> THEN [total_invested |-> 0, total_current |-> 0, total_gain_loss |-> 0]
    ELSE LET before == portfolio_totals(broker_id, SubSeq(ids, 1, Len(ids) - 1), ps, st)
             data == portfolio_data(HoldingsOf(ps, ids[Len(ids)]), st)
         IN  [total_invested |-> fadd(before.total_invested, data.invested),
              total_current |-> fadd(before.total_current, data.current),
              total_gain_loss |-> fadd(before.total_gain_loss, data.gain_loss)]

\* the totals after the records of the broker: the active ones add their amount
\* to total_invested and to total_current
RECURSIVE investment_totals(_, _, _, _)
investment_totals(totals, broker_id, ids, invs) ==
    IF ids = <<>> THEN totals
    ELSE LET before == investment_totals(totals, broker_id, SubSeq(ids, 1, Len(ids) - 1), invs)
             inv == invs[ids[Len(ids)]]
         IN  IF inv.status = "active"
             THEN [before EXCEPT !.total_invested = fadd(@, inv.amount),
                                 !.total_current = fadd(@, inv.amount)]
             ELSE before

\* executive_report_service.get_detailed_broker_data: for each broker its totals
\* and the returns of its active records
get_detailed_broker_data ==
    /\ last' =
           [op |-> "get_detailed_broker_data",
            brokers |->
                [b \in Brokers |->
                    LET of_broker == SortedIds({k \in DOMAIN portfolios :
                                                   portfolios[k].broker_id = b})
                        records == SortedIds({k \in DOMAIN investments :
                                                 investments[k].broker_id = b})
                        after_portfolios ==
                            portfolio_totals(b, of_broker, portfolio_stocks, stocks)
                        totals == investment_totals(after_portfolios, b, records, investments)
                        active == SelectSeq(records,
                                            LAMBDA k : investments[k].status = "active")
                    IN  [total_invested |-> totals.total_invested,
                         total_current |-> totals.total_current,
                         total_gain_loss |-> totals.total_gain_loss,
                         portfolios |-> after_portfolios,
                         investments |->
                             [i \in 1..Len(active) |->
                                 [id |-> active[i],
                                  amount |-> investments[active[i]].amount,
                                  calculated_return |->
                                      calculated_return(investments[active[i]]),
                                  total_at_maturity |->
                                      total_at_maturity(investments[active[i]])]]]]]
    /\ UNCHANGED <<store_vars, client_vars, desk_vars, today, now>>

----------------------------------------------------------------------------
(* The scheduled job and a manual price edit as two transactions on the    *)
(* PostgreSQL store (READ COMMITTED). Each thread has its own session: it   *)
(* loads the stock, assigns current_price and last_updated, queries today's *)
(* sample, which first flushes the UPDATE of the stock, and commits.        *)

Other(t) == CHOOSE u \in Threads : u # t

\* the UPDATE of a stocks row locks the row until the transaction ends
RowLocked(stock_id, t) ==
    /\ txn[Other(t)].pc = "flushed"
    /\ txn[Other(t)].stock_id = stock_id

\* the number of transactions that have committed or failed
Ended == Cardinality({t \in Threads : txn[t].pc = "done"})

\* stock = Stock.query...first() / get_or_404: the row as this session read it,
\* and the price the thread is about to assign
Load(t, stock_id, price) ==
    txn' = [txn EXCEPT ![t] = [pc |-> "loaded", stock_id |-> stock_id,
                               loaded |-> StockRow(stocks, stock_id), price |-> price]]

\* stock.current_price = ..; stock.last_updated = ..; PriceHistory.query...first():
\* the query flushes the session, whose UPDATE of the stocks row carries the
\* attributes that differ from the loaded ones (last_updated always does) and
\* waits for the row's lock; then it reads today's sample as committed
Flush(t) ==
    /\ txn[t].pc = "loaded"
    /\ ~RowLocked(txn[t].stock_id, t)
    /\ txn' = [txn EXCEPT ![t] =
                  [pc |-> "flushed", stock_id |-> txn[t].stock_id, price |-> txn[t].price,
                   set_price |-> txn[t].price # txn[t].loaded.current_price,
                   existing |-> Rows(price_history, txn[t].stock_id, today) # <<>>]]

\* db.session.commit(): the INSERT of a second sample of (stock_id, date) breaks
\* unique_stock_date and the transaction fails
Commit(t) ==
    LET x == txn[t]
        duplicate == ~x.existing /\ Rows(price_history, x.stock_id, today) # <<>>
    IN  /\ x.pc = "flushed"
        /\ IF duplicate
           THEN UNCHANGED <<stocks, price_history>>
           ELSE /\ stocks' = {IF r.id # x.stock_id THEN r
                              ELSE [r EXCEPT !.last_updated = now,
                                             !.current_price =
                                                 IF x.set_price THEN x.price ELSE @]
                              : r \in stocks}
                /\ price_history' =
                       IF x.existing
                       THEN [price_history EXCEPT ![<<x.stock_id, today>>] =
                                                      [@ EXCEPT ![1] = x.price]]
                       ELSE InsertHistory(price_history, x.stock_id, x.price, today)
        /\ txn' = [txn EXCEPT ![t] = [pc |-> "done", stock_id |-> x.stock_id,
                                      price |-> x.price, error |-> duplicate,
                                      order |-> Ended + 1]]

\* update_prices_from_iol up to the load of the stock of the first result; the
\* store of this specification tracks one instrument
job_load(P) ==
    /\ txn["job"].pc = "idle"
    /\ stocks # {}
    /\ \E o \in get_multiple_prices(Client, now, AllSymbols(stocks), P) :
           LET symbol == o.results[1][1]
               price_data == o.results[1][2]
               id == StockBySymbol(stocks, symbol)
           IN  /\ SetClient(o.client)
               /\ IF id # None /\ Truthy(price_data.price)
                  THEN Load("job", id, Float(price_data.price))
                  ELSE txn' = [txn EXCEPT !["job"] = [pc |-> "done", stock_id |-> None,
                                                      price |-> None, error |-> FALSE,
                                                      order |-> Ended + 1]]
    /\ last' = [op |-> "job_load"]
    /\ UNCHANGED <<store_vars, portfolios, portfolio_stocks, broker_ratings, investments, today, now>>

job_flush ==
    /\ Flush("job")
    /\ last' = [op |-> "job_flush"]
    /\ UNCHANGED <<store_vars, client_vars, portfolios, portfolio_stocks, broker_ratings, investments,
                   today, now>>

job_commit ==
    /\ Commit("job")
    /\ last' = [op |-> "job_commit"]
    /\ UNCHANGED <<next_stock_id, client_vars, portfolios, portfolio_stocks, broker_ratings,
                   investments, today, now>>

\* stock_update_price up to float(request.form.get('price'))
request_load(stock_id, form_price) ==
    /\ txn["request"].pc = "idle"
    /\ \E r \in stocks : r.id = stock_id
    /\ IF form_price = None
       THEN txn' = [txn EXCEPT !["request"] = [pc |-> "done", stock_id |-> None,
                                               price |-> None, error |-> TRUE,
                                               order |-> Ended + 1]]
       ELSE Load("request", stock_id, Float(form_price))
    /\ last' = [op |-> "request_load"]
    /\ UNCHANGED <<store_vars, client_vars, portfolios, portfolio_stocks, broker_ratings, investments,
                   today, now>>

request_flush ==
    /\ Flush("request")
    /\ last' = [op |-> "request_flush"]
    /\ UNCHANGED <<store_vars, client_vars, portfolios, portfolio_stocks, broker_ratings, investments,
                   today, now>>

request_commit ==
    /\ Commit("request")
    /\ last' = [op |-> "request_commit"]
    /\ UNCHANGED <<next_stock_id, client_vars, portfolios, portfolio_stocks, broker_ratings,
                   investments, today, now>>

\* one tracked instrument with any price, with or without a sample of today
InitRace ==
    /\ \E p \in Prices :
           /\ stocks = {[NewStock(1, DEFAULT_BONDS[1]) EXCEPT !.current_price = p]}
           /\ price_history \in {[k \in {} |-> <<>>], [k \in {<<1, 1>>} |-> <<p>>]}
    /\ next_stock_id = 2
    /\ today = 1
    /\ now = 0
    /\ access_token = None
    /\ refresh_token = None
    /\ token_expiry = None
    /\ portfolios = [k \in {} |-> None]
    /\ portfolio_stocks = <<>>
    /\ broker_ratings = [k \in {} |-> <<>>]
    /\ investments = [k \in {} |-> None]
    /\ txn = NoTransactions
    /\ last = [op |-> "init"]

NextRace ==
    \/ job_load(StoreProvider)
    \/ job_flush
    \/ job_commit
    \/ \E p \in Prices : request_load(1, p)
    \/ request_flush
    \/ request_commit

SpecRace == InitRace /\ [][NextRace]_vars

----------------------------------------------------------------------------
(* The scheduled job as one transaction whose commit can fail: the loop     *)
(* over the prices writes in the session, db.session.commit() makes the     *)
(* writes durable or raises, and the session is removed with the job's      *)
(* application context.                                                     *)

\* update_prices_from_iol up to the end of the loop over prices.items(); the
\* seeded bonds are committed on their own before the lookups
cycle_session(P) ==
    /\ txn["job"].pc = "idle"
    /\ stocks = {} => CanSeed
    /\ LET seeded == IF stocks = {} THEN SeedDefaults(next_stock_id) ELSE stocks
           symbols == AllSymbols(seeded)
       IN  \E o \in get_multiple_prices(Client, now, symbols, P) :
               LET db == apply_prices([stocks |-> seeded, history |-> price_history,
                                       updated |-> 0, errors |-> <<>>],
                                      o.results, now, today, FALSE)
               IN  /\ stocks' = seeded
                   /\ next_stock_id' = IF stocks = {} THEN next_stock_id + Len(DEFAULT_BONDS)
                                       ELSE next_stock_id
                   /\ SetClient(o.client)
                   /\ txn' = [txn EXCEPT !["job"] =
                                 [pc |-> "pending", stocks |-> db.stocks,
                                  history |-> db.history, results |-> o.results,
                                  date |-> today]]
                   /\ last' = [op |-> "cycle_session", results |-> o.results,
                               updated |-> db.updated]
    /\ UNCHANGED <<price_history, portfolios, portfolio_stocks, broker_ratings,
                   investments, today, now>>

\* db.session.commit() at the end of the cycle: ok is whether the store takes it
cycle_commit(ok) ==
    /\ txn["job"].pc = "pending"
    /\ stocks' = IF ok THEN txn["job"].stocks ELSE rollback(stocks, txn["job"].stocks)
    /\ price_history' = IF ok THEN txn["job"].history
                        ELSE rollback(price_history, txn["job"].history)
    /\ txn' = [txn EXCEPT !["job"] = Idle]
    /\ last' = [op |-> "cycle_commit", ok |-> ok, results |-> txn["job"].results]
    /\ UNCHANGED <<next_stock_id, client_vars, portfolios, portfolio_stocks, broker_ratings,
                   investments, today, now>>

NextCommit ==
    \/ NewDay
    \/ cycle_session(StoreProvider)
    \/ \E ok \in BOOLEAN : cycle_commit(ok)

SpecCommit == Init /\ [][NextCommit]_vars

----------------------------------------------------------------------------
(* The quote client in the hands of two threads: iol_service is one object  *)
(* of the process, without a lock; the scheduler's thread reaches it by     *)
(* ensure_authenticated and a request's thread by authenticate. The token   *)
(* responses are numbered as the provider issues them, and a token is named *)
(* by its response; txn keeps for each thread the response it holds and,    *)
(* under "origin", the number of responses issued and the response that     *)
(* each field of the client was assigned from.                              *)

NoOrigin == [issued |-> 0, access_token |-> None, refresh_token |-> None,
             token_expiry |-> None]

\* requests.post(url, data=data, timeout=30) and its answer; a refused refresh
\* goes on to authenticate()
post_token(t, grant, ans) ==
    /\ txn["origin"].issued < MaxResponses
    /\ txn' = [txn EXCEPT ![t] =
                  IF ans = "ok"
                  THEN [pc |-> "access_token", response |-> txn["origin"].issued + 1]
                  ELSE IF grant = "refresh_token" THEN [pc |-> "fallback"]
                  ELSE Idle,
                          !["origin"].issued = IF ans = "ok" THEN @ + 1 ELSE @]
    /\ last' = [op |-> "post_token", thread |-> t, grant |-> grant, answer |-> ans]
    /\ UNCHANGED <<store_vars, client_vars, portfolios, portfolio_stocks, broker_ratings,
                   investments, today, now>>

\* api_iol_test_connection: iol_service.authenticate()
request_authenticate(ans) ==
    /\ txn["request"].pc = "idle"
    /\ post_token("request", "password", ans)

\* the job's get_bond_price: ensure_authenticated(), which returns at once with
\* a token that has not expired
job_ensure_authenticated(ans) ==
    /\ txn["job"].pc = "idle"
    /\ IF access_token = None \/ token_expiry = None
       THEN post_token("job", "password", ans)
       ELSE /\ now >= token_expiry
            /\ post_token("job", "refresh_token", ans)

\* return self.authenticate() of refresh_access_token
job_fallback(ans) ==
    /\ txn["job"].pc = "fallback"
    /\ post_token("job", "password", ans)

\* self.access_token = token_data.get('access_token')
assign_access_token(t) ==
    /\ txn[t].pc = "access_token"
    /\ access_token' = txn[t].response
    /\ txn' = [txn EXCEPT ![t].pc = "refresh_token",
                          !["origin"].access_token = txn[t].response]
    /\ last' = [op |-> "assign_access_token", thread |-> t]
    /\ UNCHANGED <<store_vars, refresh_token, token_expiry, portfolios, portfolio_stocks,
                   broker_ratings, investments, today, now>>

\* self.refresh_token = token_data.get('refresh_token')
assign_refresh_token(t) ==
    /\ txn[t].pc = "refresh_token"
    /\ refresh_token' = txn[t].response
    /\ txn' = [txn EXCEPT ![t].pc = "token_expiry",
                          !["origin"].refresh_token = txn[t].response]
    /\ last' = [op |-> "assign_refresh_token", thread |-> t]
    /\ UNCHANGED <<store_vars, access_token, token_expiry, portfolios, portfolio_stocks,
                   broker_ratings, investments, today, now>>

\* self.token_expiry = datetime.now() + timedelta(minutes=14)
assign_token_expiry(t) ==
    /\ txn[t].pc = "token_expiry"
    /\ token_expiry' = now + TokenValidity
    /\ txn' = [txn EXCEPT ![t] = Idle,
                          !["origin"].token_expiry = txn[t].response]
    /\ last' = [op |-> "assign_token_expiry", thread |-> t]
    /\ UNCHANGED <<store_vars, access_token, refresh_token, portfolios, portfolio_stocks,
                   broker_ratings, investments, today, now>>

InitShared ==
    /\ stocks = {}
    /\ next_stock_id = 1
    /\ price_history = [k \in {} |-> <<>>]
    /\ today = 1
    /\ now = 0
    /\ access_token = None
    /\ refresh_token = None
    /\ token_expiry = None
    /\ portfolios = [k \in {} |-> None]
    /\ portfolio_stocks = <<>>
    /\ broker_ratings = [k \in {} |-> <<>>]
    /\ investments = [k \in {} |-> None]
    /\ txn = [k \in Threads \cup {"origin"} |-> IF k \in Threads THEN Idle ELSE NoOrigin]
    /\ last = [op |-> "init"]

NextShared ==
    \/ Tick(TokenValidity)
    \/ \E ans \in {"ok", "http_error"} : request_authenticate(ans)
    \/ \E ans \in {"ok", "http_error"} : job_ensure_authenticated(ans)
    \/ \E ans \in {"ok", "http_error"} : job_fallback(ans)
    \/ \E t \in Threads : assign_access_token(t)
    \/ \E t \in Threads : assign_refresh_token(t)
    \/ \E t \in Threads : assign_token_expiry(t)

SpecShared == InitShared /\ [][NextShared]_vars

----------------------------------------------------------------------------
(* The application *)

Next ==
    \/ NewDay
    \/ update_prices_from_iol(StoreProvider)
    \/ stocks_update_from_iol(StoreProvider)
    \/ \E s \in FormSymbols : stocks_add_custom(s, StoreProvider)
    \/ \E id \in 1..MaxStockId, p \in Prices \cup {None} : stock_update_price(id, p)
    \/ \E id \in 1..MaxStockId : stock_delete(id)
    \/ \E id \in 1..MaxStockId, prices \in Series : import_historical_data(id, prices)

Spec == Init /\ [][Next]_vars

(* The refresh cycles against every answer of the provider *)

NextCycle ==
    \/ Tick(TokenValidity)
    \/ update_prices_from_iol(CycleProvider)
    \/ stocks_update_from_iol(CycleProvider)

SpecCycle == Init /\ [][NextCycle]_vars

(* The quote client *)

NextClient ==
    \/ \E d \in {1, TokenValidity} : Tick(d)
    \/ api_iol_test_connection(Provider)
    \/ \E s \in FormSymbols : api_iol_get_price(s, Provider)

SpecClient == Init /\ [][NextClient]_vars

(* The instruments and the holdings of the portfolios *)

NextPortfolio ==
    \/ portfolio_new(MaxBroker)
    \/ \E s \in FormSymbols : stocks_add_custom(s, SeedProvider)
    \/ \E quantity \in {None, 0, MaxAmount}, purchase_price \in {None, 0, MaxAmount},
          stock_id \in {None} \cup (1..MaxStockId), s \in FormSymbols \cup {Missing} :
           portfolio_add_stock(MaxPortfolio, quantity, purchase_price, stock_id, s)
    \/ stocks_init_default_bonds
    \/ update_prices_from_iol(SeedProvider)
    \/ stocks_update_from_iol(SeedProvider)
    \/ \E id \in 1..MaxStockId, p \in Prices \cup {None} : stock_update_price(id, p)
    \/ \E id \in 1..MaxStockId : stock_delete(id)

SpecPortfolio == Init /\ [][NextPortfolio]_vars

(* The ratings of the brokers *)

FormRatings == {None, 0, 1, MaxStars, MaxStars + 1}

NextRatings ==
    \E broker_id \in Brokers, user_id \in Users, c \in FormCategories, r \in FormRatings :
        broker_rate(broker_id, user_id, c, r)

SpecRatings == Init /\ [][NextRatings]_vars

(* The forms, with fields that validate and fields that do not *)

NextForms ==
    \/ portfolio_new(MaxBroker)
    \/ \E s \in {"", "al29"} : stocks_add_custom(s, SeedProvider)
    \/ \E quantity \in {None, 1}, purchase_price \in {None, 1},
          stock_id \in {None, 1}, s \in {Missing, "", "GD35"} :
           portfolio_add_stock(MaxPortfolio, quantity, purchase_price, stock_id, s)
    \/ \E c \in {Missing, "comisiones"}, r \in {None, MaxStars} :
           broker_rate(MaxBroker, MaxUser, c, r)
    \/ \E name \in Names, amount \in {None, 1} :
           investment_new(InvestmentForm(name, "plazo_fijo", amount, None, None, None,
                                         "active", None))
    \/ \E id \in 1..MaxInvestment, name \in Names, amount \in {None, 1, MaxAmount} :
           investment_edit(id, InvestmentForm(name, "plazo_fijo", amount, None, None, None,
                                              "active", None))

SpecForms == Init /\ [][NextForms]_vars

(* The value of the portfolios over time, on a calendar of more than a year *)

InitHistory ==
    /\ stocks = {}
    /\ next_stock_id = 1
    /\ price_history = [k \in {} |-> <<>>]
    /\ today = 0
    /\ now = 0
    /\ access_token = None
    /\ refresh_token = None
    /\ token_expiry = None
    /\ portfolios = [k \in {} |-> None]
    /\ portfolio_stocks = <<>>
    /\ broker_ratings = [k \in {} |-> <<>>]
    /\ investments = [k \in {} |-> None]
    /\ txn = NoTransactions
    /\ last = [op |-> "init"]

NextHistory ==
    \/ NewDay
    \/ stocks_init_default_bonds
    \/ portfolio_new(MaxBroker)
    \/ \E quantity \in {0, MaxAmount}, stock_id \in 1..MaxStockId :
           portfolio_add_stock(MaxPortfolio, quantity, MaxAmount, stock_id, Missing)
    \/ \E id \in 1..MaxStockId : \E p \in id..MaxPrice : stock_update_price(id, p)
    \/ api_portfolio_value_history(MaxPortfolio)
    \/ get_portfolio_value_history(MaxPortfolio, ReportDays)

SpecHistory == InitHistory /\ [][NextHistory]_vars

(* The brokers: their portfolios, their fixed-term records and their totals *)

NextBrokers ==
    \/ stocks_init_default_bonds
    \/ \E id \in 1..MaxStockId : stock_update_price(id, MaxPrice)
    \/ portfolio_new(MaxBroker)
    \/ \E stock_id \in 1..MaxStockId :
           portfolio_add_stock(MaxPortfolio, MaxAmount, MaxAmount, stock_id, Missing)
    \/ \E t \in InvestmentTypes, amount \in {MaxAmount, 100000},
          rate \in {None, 40}, start_date \in {None, 0},
          end_date \in {None, 182}, b \in {None, MaxBroker} :
           investment_new(InvestmentForm("plazo fijo", t, amount, rate, start_date,
                                         end_date, Missing, b))
    \/ \E t \in InvestmentTypes, status \in Statuses :
           investment_edit(MaxInvestment,
                           InvestmentForm("plazo fijo", t, MaxAmount, None, None, None,
                                          status, None))
    \/ get_detailed_broker_data

SpecBrokers == Init /\ [][NextBrokers]_vars

(* The scheduled job against a provider that fails and then recovers: txn  *)
(* keeps under "provider" whether the provider still fails or has come to  *)
(* accept the credentials and to answer every lookup with a price. The     *)
(* scheduler runs the job every 30 minutes, for ever.                      *)

\* a provider that refuses a token request or not, and answers a lookup with an
\* HTTP error or with a price
FailingProvider ==
    [token |-> {"ok", "http_error"},
     quote |-> {[kind |-> "http_error", price |-> None],
                [kind |-> "ok", price |-> MaxPrice]}]

\* a provider that accepts the credentials and answers every lookup with a price
AcceptingProvider ==
    [token |-> {"ok"}, quote |-> [kind : {"ok"}, price : {0, MaxPrice}]]

InitLive ==
    /\ stocks = {}
    /\ next_stock_id = 1
    /\ price_history = [k \in {} |-> <<>>]
    /\ today = 1
    /\ now = 0
    /\ access_token = None
    /\ refresh_token = None
    /\ token_expiry = None
    /\ portfolios = [k \in {} |-> None]
    /\ portfolio_stocks = <<>>
    /\ broker_ratings = [k \in {} |-> <<>>]
    /\ investments = [k \in {} |-> None]
    /\ txn = [k \in Threads \cup {"provider"} |->
                 IF k \in Threads THEN Idle ELSE [pc |-> "failing"]]
    /\ last = [op |-> "init"]

\* from here on every requests.post and requests.get is answered with 200
provider_recovers ==
    /\ txn["provider"].pc = "failing"
    /\ txn' = [txn EXCEPT !["provider"].pc = "accepting"]
    /\ last' = [op |-> "provider_recovers"]
    /\ UNCHANGED <<store_vars, client_vars, portfolios, portfolio_stocks, broker_ratings,
                   investments, today, now>>

\* @scheduler.task('interval', id='update_iol_prices', minutes=30, ...)
scheduled_price_update ==
    update_prices_from_iol(IF txn["provider"].pc = "accepting"
                           THEN AcceptingProvider ELSE FailingProvider)

NextLive ==
    \/ Tick(TokenValidity)
    \/ provider_recovers
    \/ scheduled_price_update

SpecLive == InitLive /\ [][NextLive]_vars /\ WF_vars(scheduled_price_update)

----------------------------------------------------------------------------
(* Price history *)

PriceWriters == {"update_prices_from_iol", "stocks_update_from_iol",
                 "stock_update_price", "stocks_add_custom"}

\* the <<stock_id, price>> that the operation described by l had to record, read
\* from its inputs: the provider's results, the form's price
Recorded(l, st) ==
    IF l.op \in {"update_prices_from_iol", "stocks_update_from_iol"}
    THEN {<<StockBySymbol(st, l.results[i][1]), l.results[i][2].price>> :
            i \in {j \in 1..Len(l.results) :
                     /\ Truthy(l.results[j][2].price)
                     /\ StockBySymbol(st, l.results[j][1]) # None}}
    ELSE IF l.op = "stock_update_price"
    THEN IF l.raised THEN {} ELSE {<<l.stock_id, l.price>>}
    ELSE IF l.op = "stocks_add_custom"
    THEN IF "price_data" \in DOMAIN l /\ Truthy(l.price_data.price)
         THEN {<<l.stock_id, l.price_data.price>>} ELSE {}
    ELSE {}

\* C1: in every reachable state the price-history table holds at most one
\* sample per (instrument, date), however often prices are written on a day.
C1_OneSamplePerInstrumentDay ==
    \A k \in DOMAIN price_history : Len(price_history[k]) = 1

\* a refresh has just overwritten a sample of today that an earlier write made
C1_Witness ==
    /\ last.op \in {"update_prices_from_iol", "stocks_update_from_iol"}
    /\ last.overwrote # {}
    /\ \E k \in DOMAIN price_history : k[2] = today

\* C2: a price write for (instrument, today) leaves exactly one sample for it,
\* holding the price just written, and changes no other sample; so a second
\* write wins, and a second write of the same price changes nothing.
C2_SecondWriteWins ==
    [][\A k \in DOMAIN price_history \cup DOMAIN price_history' :
          LET W == {w \in Recorded(last', stocks') : k = <<w[1], today>>}
          IN  /\ W # {} => \A w \in W : Rows(price_history', k[1], k[2]) = <<w[2]>>
              /\ (W = {} /\ last'.op \in PriceWriters)
                    => Rows(price_history', k[1], k[2]) = Rows(price_history, k[1], k[2])
      ]_vars

\* a manual edit has just replaced today's sample by a different price
C2_Witness ==
    /\ last.op = "stock_update_price"
    /\ ~last.raised
    /\ \E w \in last.overwrote : w[1] = last.stock_id /\ w[2] # last.price
    /\ Rows(price_history, last.stock_id, today) = <<last.price>>

\* the samples dated before today are the same after the step
PastSamplesKept ==
    \A k \in DOMAIN price_history \cap DOMAIN price_history' :
        k[2] < today => price_history'[k] = price_history[k]

----------------------------------------------------------------------------
(* Quote client *)

OkAnswers == {"ok", "ok_no_token"}

IsToken(e) == e.kind = "token"
IsLookup(e) == e.kind = "lookup"
FailedToken(e) == IsToken(e) /\ e.answer \notin OkAnswers
FailedPassword(e) == FailedToken(e) /\ e.grant = "password"

\* a token response was accepted at T = expiry - TokenValidity and get_price is
\* called one minute after the expiry, at T + 15
C4_Case ==
    /\ last.op = "api_iol_get_price"
    /\ last.before.token_expiry # None
    /\ now = last.before.token_expiry + 1

\* C4 as claimed: the call makes exactly one token exchange and then the quote
\* lookup, whatever the provider answers to the token request.
C4_ExactlyOneReauthentication ==
    C4_Case =>
        /\ Len(last.events) = 2
        /\ IsToken(last.events[1])
        /\ IsLookup(last.events[2])

\* C4 as amended: the call first makes one token request; when the provider
\* accepts it, that is the only token exchange and the lookup follows; when a
\* refresh is refused or fails, one password-grant request follows it; the
\* lookup is issued only after an accepted token request, else the result is
\* 'Auth failed'.
C4_ReauthenticationBeforeLookup ==
    C4_Case =>
        LET ev == last.events
            failed == /\ last.price_data.price = None
                      /\ last.price_data.error = "Auth failed"
        IN  /\ Len(ev) >= 1
            /\ IsToken(ev[1])
            /\ ~FailedToken(ev[1]) => Len(ev) = 2 /\ IsLookup(ev[2])
            /\ (FailedToken(ev[1]) /\ ev[1].grant = "password") => Len(ev) = 1 /\ failed
            /\ (FailedToken(ev[1]) /\ ev[1].grant = "refresh_token") =>
                   /\ Len(ev) >= 2
                   /\ IsToken(ev[2])
                   /\ ev[2].grant = "password"
                   /\ FailedToken(ev[2]) => Len(ev) = 2 /\ failed
                   /\ ~FailedToken(ev[2]) => Len(ev) = 3 /\ IsLookup(ev[3])

\* the refresh was refused, the password grant accepted, the lookup issued
C4_Witness ==
    /\ C4_Case
    /\ Len(last.events) = 3
    /\ FailedToken(last.events[1])
    /\ IsLookup(last.events[3])

\* C5 as claimed: a lookup is issued only after ensure_authenticated succeeded
\* in the same call, with a non-empty access token whose expiry lies in the
\* future; when it fails no lookup is issued and the result carries an error
\* indicator with a null price.
C5_LookupHoldsValidToken ==
    last.op = "api_iol_get_price" =>
        LET ev == last.events
        IN  /\ \A i \in 1..Len(ev) :
                   IsLookup(ev[i]) =>
                       /\ i = Len(ev)
                       /\ i > 1 => ~FailedToken(ev[i - 1])
                       /\ ev[i].bearer # None
                       /\ ev[i].expiry # None
                       /\ ev[i].expiry > ev[i].at
            /\ (\A i \in 1..Len(ev) : ~IsLookup(ev[i])) =>
                   /\ last.price_data.price = None
                   /\ last.price_data.error # ErrAbsent

\* C6: an authenticate that gets a non-success status or a transport failure
\* reports failure after exactly one password-grant request and leaves the
\* access token, the refresh token and the expiry as they were.
C6_FailedAuthenticateChangesNothing ==
    last.op \in {"api_iol_test_connection", "api_iol_get_price"} =>
        LET ev == last.events
        IN  (ev # <<>> /\ FailedPassword(ev[Len(ev)])) =>
                /\ Client = last.before
                /\ Cardinality({i \in 1..Len(ev) : IsToken(ev[i]) /\ ev[i].grant = "password"}) = 1
                /\ last.op = "api_iol_test_connection" =>
                       ~last.ok /\ last.status = 401 /\ Len(ev) = 1
                /\ last.op = "api_iol_get_price" =>
                       last.price_data.error = "Auth failed"

\* the connectivity test failed on a client that held a token, and on one that did not
C6_Witness ==
    /\ last.op = "api_iol_test_connection"
    /\ ~last.ok
    /\ last.before.access_token # None
    /\ access_token = last.before.access_token

\* C8 as claimed: every failed lookup (authentication failure, non-200 status,
\* network error, or a 200 response without a price) returns a result with a
\* null price and an error indicator.
C8_FailedLookupCarriesError ==
    last.op = "api_iol_get_price" =>
        (last.price_data.price = None => last.price_data.error # ErrAbsent)

----------------------------------------------------------------------------
(* Refresh cycles *)

Cycles == {"update_prices_from_iol", "stocks_update_from_iol"}

\* C7 as claimed: within one scheduled cycle, once an authentication has failed
\* no further token request is made, so at most one authentication fails.
C7_OneFailedAuthenticationPerCycle ==
    last.op = "update_prices_from_iol" =>
        LET ev == last.events
        IN  \A i \in 1..Len(ev) :
                FailedPassword(ev[i]) => \A j \in (i + 1)..Len(ev) : ~IsToken(ev[j])

\* the position of a symbol in the list the cycle was given
Position(symbols, symbol) == Min({i \in 1..Len(symbols) : Upper(symbols[i]) = symbol})

\* C9 as claimed: get_prices returns one entry per input symbol, in input
\* order, looks the symbols up in input order, and every entry has a price or,
\* when its lookup failed, an error indicator.
C9_OneEntryPerSymbol ==
    last.op \in Cycles =>
        LET ev == last.events
            lookups == {i \in 1..Len(ev) : IsLookup(ev[i])}
        IN  /\ Len(last.results) = Len(last.symbols)
            /\ \A i \in 1..Len(last.results) : last.results[i][1] = last.symbols[i]
            /\ \A i \in lookups, j \in lookups :
                   i < j => Position(last.symbols, ev[i].symbol)
                                < Position(last.symbols, ev[j].symbol)
            /\ \A i \in 1..Len(last.results) :
                   \/ last.results[i][2].price # None
                   \/ last.results[i][2].error # ErrAbsent

\* C10 as claimed: after a refresh every symbol whose lookup failed is in the
\* error list reported to the caller.
C10_EveryFailureReported ==
    last.op \in Cycles =>
        \A i \in 1..Len(last.results) :
            last.results[i][2].price = None =>
                \E j \in 1..Len(last.reported) : last.reported[j][1] = last.results[i][1]

\* the row of the instrument a result of the cycle is about, None when no row
\* has its symbol
ResultStock(st, result) == StockBySymbol(st, result[1])

\* C11 as claimed: after a refresh cycle every tracked instrument whose lookup
\* succeeded with a price p has current_price = p, the timestamp of the cycle
\* and a sample of today holding p, for every price a lookup can return.
C11_SuccessfulLookupStored ==
    last.op \in Cycles =>
        \A i \in 1..Len(last.results) :
            LET p == last.results[i][2].price
                id == ResultStock(stocks, last.results[i])
            IN  (p # None /\ id # None) =>
                    /\ StockRow(stocks, id).current_price = p
                    /\ StockRow(stocks, id).last_updated = now
                    /\ Rows(price_history, id, today) = <<p>>

\* the row r of stocks' is a row of stocks, or a row the cycle has just created
\* that has no price yet
Untouched(r, st) ==
    \/ r \in st
    \/ /\ \A x \in st : x.id # r.id
       /\ r.current_price = 0
       /\ r.last_updated = None

\* C12 as claimed: in a cycle an instrument whose lookup failed keeps its
\* current price, its timestamp and all its samples, the instruments whose
\* lookup succeeded are updated, and a cycle in which every lookup failed
\* changes no instrument and no sample.
C12_FailedLookupKeepsStale ==
    [][last'.op \in Cycles =>
          LET results == last'.results
              failed(i) == results[i][2].price = None
          IN  /\ \A i \in 1..Len(results) :
                     LET id == ResultStock(stocks', results[i])
                     IN  id # None =>
                             IF failed(i)
                             THEN /\ Untouched(StockRow(stocks', id), stocks)
                                  /\ \A k \in DOMAIN price_history \cup DOMAIN price_history' :
                                         k[1] = id => Rows(price_history', k[1], k[2])
                                                          = Rows(price_history, k[1], k[2])
                             ELSE /\ StockRow(stocks', id).current_price = results[i][2].price
                                  /\ Rows(price_history', id, today) = <<results[i][2].price>>
              /\ (\A i \in 1..Len(results) : failed(i)) =>
                     /\ price_history' = price_history
                     /\ \A r \in stocks' : Untouched(r, stocks)
      ]_vars

\* the transactions that wrote a price, all ended
Writers == {t \in Threads : txn[t].pc = "done" /\ txn[t].stock_id # None}

\* C13 as claimed: when the scheduled cycle and a manual price edit write the
\* same instrument on the same day concurrently, both complete without error
\* and the current price and the day's single sample hold the value of the
\* write that committed last, under every interleaving, with or without a
\* sample of that day.
C13_LastCommitWins ==
    (Writers = Threads) =>
        LET final == CHOOSE t \in Threads : \A u \in Threads : txn[u].order <= txn[t].order
            id == txn[final].stock_id
        IN  /\ \A t \in Threads : ~txn[t].error
            /\ StockRow(stocks, id).current_price = txn[final].price
            /\ Rows(price_history, id, today) = <<txn[final].price>>

----------------------------------------------------------------------------
(* Ratings *)

\* C14: the store holds at most one rating per (broker, user, category), and a
\* rating of a triple that already has one leaves the one row with the new value.
C14_OneRatingPerTriple ==
    /\ \A k \in DOMAIN broker_ratings : Len(broker_ratings[k]) = 1
    /\ (last.op = "broker_rate" /\ last.outcome = "saved") =>
           Ratings(broker_ratings, last.key) = <<last.rating>>

\* a triple rated before has just been rated again with a different value
C14_Witness ==
    /\ last.op = "broker_rate"
    /\ last.outcome = "saved"
    /\ last.replaced # <<>>
    /\ last.replaced[1] # last.rating
    /\ Cardinality(DOMAIN broker_ratings) > 1

\* C15 as claimed: every stored rating is an integer from 1 to 5, whatever
\* integer the request submits.
C15_RatingsWithinStars ==
    \A k \in DOMAIN broker_ratings :
        \A i \in 1..Len(broker_ratings[k]) : broker_ratings[k][i] \in 1..MaxStars

----------------------------------------------------------------------------
(* Instruments and holdings *)

\* C16: no two instruments share a ticker symbol, whichever operations created
\* them, and a default-universe seed made when the instruments it names exist
\* (by the init trigger, or by a cycle on a store that has instruments) creates none.
C16_UniqueSymbols ==
    [][/\ \A r1 \in stocks', r2 \in stocks' : r1.symbol = r2.symbol => r1 = r2
       /\ (/\ last'.op = "stocks_init_default_bonds"
           /\ \A i \in 1..Len(DEFAULT_BONDS) : \E r \in stocks : r.symbol = DEFAULT_BONDS[i])
              => stocks' = stocks
       /\ (last'.op \in {"update_prices_from_iol", "stocks_update_from_iol"} /\ stocks # {})
              => {r.id : r \in stocks'} = {r.id : r \in stocks}
      ]_vars

\* the init trigger has run on a store that held one of the default bonds, added
\* by hand, and has created the other
C16_Witness ==
    /\ last.op = "stocks_init_default_bonds"
    /\ last.created = 1
    /\ Cardinality(stocks) = 2

\* C17: after stock_delete the instrument, its samples and the holdings that
\* reference it are gone; every sample and every holding references an
\* instrument that exists.
C17_DeleteCascades ==
    [][/\ last'.op = "stock_delete" =>
              /\ \A r \in stocks' : r.id # last'.stock_id
              /\ \A k \in DOMAIN price_history' : k[1] # last'.stock_id
              /\ \A i \in 1..Len(portfolio_stocks') :
                     portfolio_stocks'[i].stock_id # last'.stock_id
       /\ \A k \in DOMAIN price_history' : \E r \in stocks' : r.id = k[1]
       /\ \A i \in 1..Len(portfolio_stocks') :
              \E r \in stocks' : r.id = portfolio_stocks'[i].stock_id
      ]_vars

\* an instrument with samples and holdings has just been deleted, another is left
C17_Witness ==
    /\ last.op = "stock_delete"
    /\ last.samples > 0
    /\ last.holdings > 0
    /\ stocks # {}

\* C19: gain_loss_percentage is 0 for every holding whose quantity times
\* purchase price is 0, and raises no division by zero for any holding.
C19_NoDivisionByZero ==
    \A i \in 1..Len(portfolio_stocks) :
        LET h == portfolio_stocks[i]
            pct == gain_loss_percentage(h, stocks)
        IN  /\ ~pct.raised
            /\ h.quantity * h.purchase_price = 0 => pct.value[1] = 0

\* a holding bought at price 0 whose instrument has a price: its gain is not 0
C19_Witness ==
    \E i \in 1..Len(portfolio_stocks) :
        LET h == portfolio_stocks[i]
        IN  /\ h.quantity > 0
            /\ h.purchase_price = 0
            /\ gain_loss(h, stocks) # 0

\* C20 as claimed: for every holding the value is quantity times current price
\* (0 when the price is unset or zero) and equals gain_loss plus quantity times
\* purchase price; the total of a portfolio is the sum of the values of its holdings.
C20_ValueIsGainPlusCost ==
    /\ \A i \in 1..Len(portfolio_stocks) :
           LET h == portfolio_stocks[i]
               price == StockRow(stocks, h.stock_id).current_price
           IN  /\ current_value(h, stocks) =
                      IF Truthy(price) THEN fmul(h.quantity, price) ELSE 0
               /\ current_value(h, stocks) =
                      fadd(gain_loss(h, stocks), fmul(h.quantity, h.purchase_price))
    /\ \A p \in Portfolios :
           LET hs == HoldingsOf(portfolio_stocks, p)
           IN  total_value(portfolio_stocks, stocks, p) =
                   Sum([i \in 1..Len(hs) |-> current_value(hs[i], stocks)])

----------------------------------------------------------------------------
(* Validation *)

tables == <<stocks, next_stock_id, price_history, portfolios, portfolio_stocks,
            broker_ratings, investments>>

\* the request described by l was rejected for a field that does not validate
Rejected(l) ==
    \/ l.op = "stocks_add_custom" /\ "flash" \in DOMAIN l /\ l.flash = "El simbolo es requerido"
    \/ l.op = "portfolio_add_stock" /\ l.outcome \in {"ValueError", "flash"}
    \/ l.op = "broker_rate" /\ l.outcome = "raised"
    \/ l.op \in {"investment_new", "investment_edit"} /\ l.outcome = "ValueError"

\* C18: a request rejected for a validation failure (empty symbol, unparsable
\* quantity, purchase price, rating or amount) leaves every table as it was.
C18_RejectedChangesNothing ==
    [][Rejected(last') => tables' = tables]_vars

\* the edit of a fixed-term record was rejected for its amount after the
\* handler had assigned the new name
C18_Witness ==
    /\ last.op = "investment_edit"
    /\ last.outcome = "ValueError"
    /\ last.renamed
    /\ stocks # {}
    /\ portfolio_stocks # <<>>
    /\ DOMAIN broker_ratings # {}

----------------------------------------------------------------------------
(* The value of a portfolio over time *)

HistoryOps == {"api_portfolio_value_history", "get_portfolio_value_history"}

\* the dates of the range of the series that last describes
RangeOf(l) == {d \in 0..MaxDay : d >= l.start_date /\ d <= today}

\* the instruments that the portfolio holds
HeldIds(hs) == {hs[i].stock_id : i \in 1..Len(hs)}

\* the quantity that the portfolio holds of an instrument, over all its holdings
Held(hs, id) ==
    LET of_id == SelectSeq(hs, LAMBDA h : h.stock_id = id)
    IN  Sum([i \in 1..Len(of_id) |-> of_id[i].quantity])

\* the held instruments with a sample on date d
Sampled(hs, d) == {id \in HeldIds(hs) : Rows(price_history, id, d) # <<>>}

\* the total of quantity * price over the held instruments with a sample on date d
TotalOn(hs, d) ==
    LET ids == SortedIds(Sampled(hs, d))
    IN  Sum([i \in 1..Len(ids) |->
                fmul(Held(hs, ids[i]), Rows(price_history, ids[i], d)[1])])

\* C21: for each date of the range with a sample of a held instrument, the series
\* reports the total of quantity * price over the held instruments that have
\* a sample on that date (rounded, and dropped when it is not positive), and it
\* reports no date outside the range or without a sample
C21_TotalsPerDate ==
    (last.op \in HistoryOps /\ ~last.synthetic) =>
        LET hs == HoldingsOf(portfolio_stocks, last.portfolio_id)
        IN  /\ \A d \in RangeOf(last) :
                   Sampled(hs, d) # {} =>
                       IF TotalOn(hs, d) > 0
                       THEN \E i \in 1..Len(last.days) :
                                /\ last.days[i] = d
                                /\ last.values[i] = round(TotalOn(hs, d), Decimals)
                       ELSE \A i \in 1..Len(last.days) : last.days[i] # d
            /\ \A i \in 1..Len(last.days) :
                   /\ last.days[i] \in RangeOf(last)
                   /\ Sampled(hs, last.days[i]) # {}

\* C22: the dates of the emitted series ascend strictly, none is repeated, every
\* emitted total is strictly positive, and no date with a total of zero or less
\* is in the series
C22_AscendingPositiveSeries ==
    last.op = "api_portfolio_value_history" =>
        LET hs == HoldingsOf(portfolio_stocks, last.portfolio_id)
        IN  /\ \A i, j \in 1..Len(last.dates) : i < j => last.dates[i] < last.dates[j]
            /\ \A i \in 1..Len(last.values) : last.values[i] > 0
            /\ ~last.synthetic =>
                   \A d \in RangeOf(last) :
                       (Sampled(hs, d) # {} /\ TotalOn(hs, d) <= 0) =>
                           \A i \in 1..Len(last.days) : last.days[i] # d

\* no date of the range has a positive total
NonePositive(hs, l) == \A d \in RangeOf(l) : Sampled(hs, d) # {} => TotalOn(hs, d) <= 0

\* v is the greatest, the least, of the numbers of a sequence
IsMaxOf(v, values) ==
    /\ \E i \in 1..Len(values) : values[i] = v
    /\ \A i \in 1..Len(values) : values[i] <= v
IsMinOf(v, values) ==
    /\ \E i \in 1..Len(values) : values[i] = v
    /\ \A i \in 1..Len(values) : values[i] >= v

\* v is x to two decimals: a multiple of 0.01 at no more than 0.005 from x
TwoDecimalsOf(v, x) ==
    LET step == Pow10(Resolution - Decimals)
    IN  /\ v % step = 0
        /\ 2 * (v - x) <= step
        /\ 2 * (x - v) <= step

\* C23 as stated: with no positive total in the range, the series is the one point
\* of today with the live value when that is positive, and empty when it is not;
\* max_value and min_value are those of the series, or the live value without one
C23_SyntheticPointLive ==
    last.op = "api_portfolio_value_history" =>
        LET hs == HoldingsOf(portfolio_stocks, last.portfolio_id)
            live == total_value(portfolio_stocks, stocks, last.portfolio_id)
        IN  /\ (NonePositive(hs, last) /\ live > 0) =>
                   /\ last.days = <<today>>
                   /\ last.values = <<live>>
            /\ (NonePositive(hs, last) /\ live <= 0) => last.values = <<>>
            /\ IF last.values # <<>>
               THEN /\ IsMaxOf(last.max_value, last.values)
                    /\ IsMinOf(last.min_value, last.values)
               ELSE /\ last.max_value = live
                    /\ last.min_value = live

\* C23 amended: the one point of today carries the live value rounded to two
\* decimals, and without a series max_value and min_value are the rounded live value
C23_SyntheticPointRounded ==
    last.op = "api_portfolio_value_history" =>
        LET hs == HoldingsOf(portfolio_stocks, last.portfolio_id)
            live == total_value(portfolio_stocks, stocks, last.portfolio_id)
        IN  /\ (NonePositive(hs, last) /\ live > 0) =>
                   /\ last.days = <<today>>
                   /\ Len(last.dates) = 1
                   /\ Len(last.values) = 1
                   /\ TwoDecimalsOf(last.values[1], live)
            /\ (NonePositive(hs, last) /\ live <= 0) => last.values = <<>>
            /\ IF last.values # <<>>
               THEN /\ IsMaxOf(last.max_value, last.values)
                    /\ IsMinOf(last.min_value, last.values)
               ELSE /\ TwoDecimalsOf(last.max_value, live)
                    /\ TwoDecimalsOf(last.min_value, live)

\* a synthetic point was emitted for a portfolio whose live value rounds to
\* another number, and a series of two different totals was emitted
C23_Witness ==
    /\ last.op = "api_portfolio_value_history"
    /\ last.synthetic
    /\ last.values # <<total_value(portfolio_stocks, stocks, last.portfolio_id)>>

\* every held instrument has a sample on date d that holds its current price
AllAtCurrent(hs, d) ==
    /\ hs # <<>>
    /\ \A id \in HeldIds(hs) :
           /\ Rows(price_history, id, d) # <<>>
           /\ Rows(price_history, id, d)[1] = StockRow(stocks, id).current_price

\* C27: when every held instrument has a sample on date d of the range with its
\* current price, the total of the series for d is the live value of the
\* portfolio, also with several holdings of one instrument
C27_HistoryMatchesLive ==
    (last.op = "api_portfolio_value_history" /\ ~last.synthetic) =>
        LET hs == HoldingsOf(portfolio_stocks, last.portfolio_id)
            live == total_value(portfolio_stocks, stocks, last.portfolio_id)
        IN  \A d \in RangeOf(last) :
                (AllAtCurrent(hs, d) /\ live > 0) =>
                    \E i \in 1..Len(last.days) :
                        /\ last.days[i] = d
                        /\ last.values[i] = round(live, Decimals)

----------------------------------------------------------------------------
(* Fixed-term records and the totals of the brokers *)

\* the records that the report of broker b lists
Listed(b) == last.brokers[b].investments

\* C24: the return of a record is principal * (rate/100) * (days/365), with days
\* from the start date to the end date, when it is a fixed-term deposit with a
\* rate and both dates, and zero otherwise; its total at maturity is the
\* principal plus the return; principal 100000 at rate 40 over 182 days returns
\* 100000*40*182/36500
C24_AccruedReturn ==
    last.op = "get_detailed_broker_data" =>
        \A b \in Brokers : \A i \in 1..Len(Listed(b)) :
            LET e == Listed(b)[i]
                inv == investments[e.id]
                days == inv.end_date - inv.start_date
                applies == /\ inv.investment_type = "plazo_fijo"
                           /\ inv.interest_rate # None
                           /\ inv.start_date # None
                           /\ inv.end_date # None
                r == e.calculated_return
            IN  /\ applies =>
                       r = Fraction(inv.amount * inv.interest_rate * days, 36500)
                /\ ~applies => r[1] = 0
                /\ e.total_at_maturity = Fraction(inv.amount * r[2] + r[1], r[2])
                /\ (applies /\ inv.amount = 100000 /\ inv.interest_rate = 40 /\ days = 182) =>
                       r = Fraction(100000 * 40 * 182, 36500)

\* the report lists a deposit of 100000 at rate 40 over 182 days with its return
C24_Witness ==
    /\ last.op = "get_detailed_broker_data"
    /\ \E b \in Brokers : \E i \in 1..Len(Listed(b)) :
           LET inv == investments[Listed(b)[i].id]
           IN  /\ inv.investment_type = "plazo_fijo"
               /\ inv.amount = 100000
               /\ inv.interest_rate = 40
               /\ inv.end_date - inv.start_date = 182
               /\ Listed(b)[i].calculated_return[1] > 0

\* the amounts of the active records of broker b, in the order of their ids
ActiveAmounts(b) ==
    LET ids == SortedIds({k \in DOMAIN investments :
                             /\ investments[k].broker_id = b
                             /\ investments[k].status = "active"})
    IN  [i \in 1..Len(ids) |-> investments[ids[i]].amount]

\* x + amounts[1] + amounts[2] + ...
RECURSIVE AddAll(_, _)
AddAll(x, amounts) ==
    IF amounts = <<>> THEN x
    ELSE fadd(AddAll(x, SubSeq(amounts, 1, Len(amounts) - 1)), amounts[Len(amounts)])

\* C25: the totals of a broker are those of its portfolios plus, for each of its
\* active records, the principal in total_invested and in total_current and
\* nothing in total_gain_loss, and nothing for its other records; so that
\* total_current - total_invested = total_gain_loss
C25_BrokerTotals ==
    last.op = "get_detailed_broker_data" =>
        \A b \in Brokers :
            LET t == last.brokers[b]
            IN  /\ t.total_invested = AddAll(t.portfolios.total_invested, ActiveAmounts(b))
                /\ t.total_current = AddAll(t.portfolios.total_current, ActiveAmounts(b))
                /\ t.total_gain_loss = t.portfolios.total_gain_loss
                /\ fsub(t.total_current, t.total_invested) = t.total_gain_loss

----------------------------------------------------------------------------
(* The commit of a refresh cycle *)

\* the <<stock_id, price>> that the cycle in flight wrote in its session
CycleWrites == Recorded([op |-> "update_prices_from_iol", results |-> txn["job"].results],
                        stocks)

----------------------------------------------------------------------------
(* The quote client shared by the threads *)

\* no thread is between the answer of the provider and its last assignment
Quiescent == \A t \in Threads : txn[t].pc = "idle"

\* C28: whatever the interleaving of the job and the requests, the access token,
\* the refresh token and the expiry that the client holds come from one token
\* response, and the expiry is never that of a response newer than the token's
C28_TokensFromOneResponse ==
    (Quiescent /\ token_expiry # None) =>
        /\ txn["origin"].access_token = txn["origin"].refresh_token
        /\ txn["origin"].access_token = txn["origin"].token_expiry
        /\ access_token = refresh_token

----------------------------------------------------------------------------
(* Recovery of the scheduled job *)

\* the last step was a cycle of the recovered provider that ended with a token
\* in hand and wrote the price of every tracked instrument
CycleUpdatedAll ==
    /\ last.op = "update_prices_from_iol"
    /\ txn["provider"].pc = "accepting"
    /\ access_token # None
    /\ last.updated = Len(last.symbols)

\* C29: whatever cycles failed before, once the provider accepts the
\* credentials and returns prices, and cycles keep occurring, eventually a
\* cycle authenticates and updates the current price of every tracked instrument
C29_CyclesRecover ==
    (txn["provider"].pc = "accepting") ~> CycleUpdatedAll

----------------------------------------------------------------------------
(* Current price and the sample of the day *)

\* the instruments whose price the last step wrote and committed: the ones a
\* handler recorded, or the one of a transaction that has just committed
CommittedWrites ==
    IF last.op \in PriceWriters
    THEN {w[1] : w \in Recorded(last, stocks)}
    ELSE IF last.op \in {"job_commit", "request_commit"}
    THEN LET t == IF last.op = "job_commit" THEN "job" ELSE "request"
         IN  IF txn[t].error THEN {} ELSE {txn[t].stock_id}
    ELSE {}

\* C30: after every committed price write of the application (scheduled cycle,
\* bulk refresh, manual price edit, custom instrument added with a fetched
\* price) the instrument's sample of the day of the write holds exactly the
\* instrument's current price.
C30_PriceMatchesSample ==
    \A id \in CommittedWrites :
        Rows(price_history, id, today) = <<StockRow(stocks, id).current_price>>

====
